---- MODULE Spec2Model ----
(***************************************************************************)
(* A model of the thoruh options parser (src/options.go).                  *)
(*                                                                         *)
(* Strings are modelled as sequences of one-character strings ([]rune of   *)
(* ASCII text, where a rune and a byte coincide).  Go indices are 0-based: *)
(* nextArgumentValueIndex keeps its Go value, and s[k:] is From(s, k).     *)
(* Token positions recorded for the properties are 1-based.                *)
(***************************************************************************)
EXTENDS Integers, Sequences, FiniteSets, TLC

VARIABLES
    dosMode,                            \* runtime.GOOS == "windows"
    argumentValues,                     \* Options.argumentValues
    longOptionDescriptors,              \* Options.longOptionDescriptors
    shortOptionDescriptors,             \* Options.shortOptionDescriptors
    nextArgumentValueIndex,             \* Options.nextArgumentValueIndex
    skipArgumentsOnNextParseIteration,  \* Options.skipArgumentsOnNextParseIteration
    Parsed,                             \* Options.Parsed
    pc,                                 \* position of the caller inside Parse
    loopIndex,                          \* number of tokens the range loop has visited
    results,                            \* the local `results` of Parse
    returned,                           \* the pointer the latest Parse call returned
    allocated,                          \* number of ParseResult objects created
    cachedCalls,                        \* whether a Parse call found a memoized result
    lateAdds,                           \* whether AddOption/AddOptions ran after a Parse
    origins,                            \* per outcome: the token that produced it, the
                                        \* cursor and skip counter it found, and the
                                        \* token it adopted as its argument (0: none)
    swallowed,                          \* tokens skipped through the pending-skip counter
    blanks,                             \* tokens skipped as empty after trimming
    stopAt,                             \* the token at which the loop broke (0: none)
    cursorTrace                         \* the cursor on entering the loop and after
                                        \* each iteration

vars == <<dosMode, argumentValues, longOptionDescriptors, shortOptionDescriptors,
          nextArgumentValueIndex, skipArgumentsOnNextParseIteration, Parsed, pc,
          loopIndex, results, returned, allocated, cachedCalls, lateAdds, origins,
          swallowed, blanks, stopAt, cursorTrace>>

(***************************************************************************)
(* Bounds of the model.                                                    *)
(***************************************************************************)
MaxArgs == 3

(***************************************************************************)
(* Program constants.                                                      *)
(***************************************************************************)
OptionArgumentTypeNone == 0
OptionArgumentTypeRequired == 1
OptionTypeLong == 0
OptionTypeShort == 1

(***************************************************************************)
(* Strings.                                                                *)
(***************************************************************************)
From(s, k) == SubSeq(s, k + 1, Len(s))

UpTo(s, k) == SubSeq(s, 1, k)

IndexRune(s, c) ==
    IF \E k \in 1..Len(s) : s[k] = c
    THEN (CHOOSE k \in 1..Len(s) : s[k] = c /\ \A j \in 1..(k - 1) : s[j] # c) - 1
    ELSE -1

ContainsRune(s, c) == \E k \in 1..Len(s) : s[k] = c

RECURSIVE TrimLeft(_)
TrimLeft(s) == IF s # <<>> /\ Head(s) = " " THEN TrimLeft(Tail(s)) ELSE s

RECURSIVE TrimRight(_)
TrimRight(s) ==
    IF s # <<>> /\ s[Len(s)] = " " THEN TrimRight(UpTo(s, Len(s) - 1)) ELSE s

TrimSpace(s) == TrimRight(TrimLeft(s))

\* A []rune that may be nil; string(nil) is "".
NilRunes == [nil |-> TRUE, runes |-> <<>>]

Runes(s) == [nil |-> FALSE, runes |-> s]

(***************************************************************************)
(* Outcomes.                                                               *)
(***************************************************************************)
OptionPrefix(optionType) ==
    IF optionType = OptionTypeLong THEN <<"-", "-">> ELSE <<"-">>

newExtraneousOptionArgumentParseError(optionType, optionName, optionArgument) ==
    [name |-> "ExtraneousOptionArgumentParseError",
     message |-> <<"Extraneous argument", optionArgument, "passed to option",
                   OptionPrefix(optionType) \o optionName>>,
     OptionArgument |-> optionArgument,
     OptionName |-> optionName,
     OptionType |-> optionType]

newMissingOptionArgumentParseError(optionType, optionName) ==
    [name |-> "MissingOptionArgumentParseError",
     message |-> <<"Option", OptionPrefix(optionType) \o optionName,
                   "expects an argument">>,
     OptionName |-> optionName,
     OptionType |-> optionType]

newUnknownOptionParseError(optionType, optionName) ==
    [name |-> "UnknownOptionParseError",
     message |-> <<"Option", OptionPrefix(optionType) \o optionName, "is unknown">>,
     OptionName |-> optionName,
     OptionType |-> optionType]

ParsedOptionValue(optionArgument, optionDescriptor, optionName) ==
    [Argument |-> optionArgument,
     ArgumentType |-> optionDescriptor.ArgumentType,
     Name |-> optionName,
     Type |-> optionDescriptor.Type]

ParsedOption(isError, value) == [Error |-> isError, Value |-> value]

NilResult == [ref |-> 0, Options |-> <<>>, RemainingArgumentValues |-> <<>>]

(***************************************************************************)
(* The resolvers.  A resolver works on the scanner state                   *)
(*   [results, next, skip, panicked]                                       *)
(* (the outcomes it returns, nextArgumentValueIndex,                       *)
(* skipArgumentsOnNextParseIteration, and whether a slice expression went  *)
(* out of range) and returns the state it leaves.                          *)
(***************************************************************************)
\* A cursor that moves two tokens at a time.
incrementNextArgumentValueIndexByTwo(st) == [st EXCEPT !.next = st.next + 2]

incrementNextArgumentValueIndex(st) == [st EXCEPT !.next = st.next + 1]

\* An outcome appended without consuming the option token.
EmitKeepingCursor(st, parsedOption) ==
    [st EXCEPT !.results = Append(st.results, parsedOption)]

\* results = append(results, result) with options.incrementNextArgumentValueIndex()
Emit(st, parsedOption) ==
    incrementNextArgumentValueIndex(
        [st EXCEPT !.results = Append(st.results, parsedOption)])

\* An error that also claims the next token.
EmitErrorClaimingNext(st, error) ==
    Emit([st EXCEPT !.skip = st.skip + 1], ParsedOption(TRUE, error))

\* An error outcome: append it and consume the option token; nothing else changes.
EmitError(st, error) == Emit(st, ParsedOption(TRUE, error))

\* options.argumentValues[(options.nextArgumentValueIndex + uint(1)):]
LookaheadInRange(st) == st.next + 1 <= Len(argumentValues)

Lookahead(st) == From(argumentValues, st.next + 1)

\* The required-argument branch taken when no inline argument was given.
AdoptNextArgument(st, optionType, optionName, optionDescriptor) ==
    IF ~LookaheadInRange(st)
    THEN [st EXCEPT !.panicked = TRUE]
    ELSE IF Len(Lookahead(st)) = 0
    THEN EmitError(st, newMissingOptionArgumentParseError(optionType, optionName))
    ELSE Emit([st EXCEPT !.skip = st.skip + 1],
              ParsedOption(FALSE,
                  ParsedOptionValue(Lookahead(st)[1], optionDescriptor, optionName)))

\* A split that never finds the separator.
SplitInlineNever(optionName, separator) ==
    [name |-> optionName, argument |-> NilRunes]

\* name[=|:]value: the name, and the inline argument (nil without a separator).
SplitInline(optionName, separator) ==
    LET index == IndexRune(optionName, separator) IN
    IF index # -1
    THEN [name |-> UpTo(optionName, index),
          argument |-> IF Len(optionName) >= index + 1
                       THEN Runes(From(optionName, index + 1))
                       ELSE NilRunes]
    ELSE [name |-> optionName, argument |-> NilRunes]

\* A resolver that looks ahead although an inline argument was given.
LongAlwaysLooksAhead(optionArgument) == TRUE

\* optionArgument == nil: no inline argument was given.
LongNeedsLookahead(optionArgument) == optionArgument.nil

parseLongOption(optionNameIn, dosPrefix, st) ==
    LET split == SplitInline(optionNameIn, IF dosPrefix THEN ":" ELSE "=")
        optionName == split.name
        optionArgument == split.argument
    IN
    IF optionName \notin DOMAIN longOptionDescriptors
    THEN EmitError(st, newUnknownOptionParseError(OptionTypeLong, optionName))
    ELSE
    LET optionDescriptor == longOptionDescriptors[optionName] IN
    IF optionDescriptor.ArgumentType = OptionArgumentTypeNone
       /\ ~optionArgument.nil
    THEN EmitError(st, newExtraneousOptionArgumentParseError(
                           OptionTypeLong, optionName, optionArgument.runes))
    ELSE IF optionDescriptor.ArgumentType = OptionArgumentTypeRequired
            /\ LongNeedsLookahead(optionArgument)
    THEN AdoptNextArgument(st, OptionTypeLong, optionName, optionDescriptor)
    ELSE Emit(st, ParsedOption(FALSE,
                  ParsedOptionValue(optionArgument.runes, optionDescriptor, optionName)))

\* A cluster walk that does not skip the trailing text of a flag.
LocalSkipForgotten(optionArgument, skipLocal) == skipLocal

\* The characters of the cluster that the current flag's trailing text covers.
LocalSkipFor(optionArgument, skipLocal) ==
    IF optionArgument # <<>> THEN skipLocal + Len(optionArgument) ELSE skipLocal

\* One flag of a cluster: optionName with its trailing text optionArgument.
parseShortOption(optionName, optionArgument, st) ==
    IF <<optionName>> \notin DOMAIN shortOptionDescriptors
    THEN EmitError(st, newUnknownOptionParseError(OptionTypeShort, <<optionName>>))
    ELSE
    LET optionDescriptor == shortOptionDescriptors[<<optionName>>] IN
    IF optionDescriptor.ArgumentType = OptionArgumentTypeNone
       /\ optionArgument # <<>>
    THEN EmitError(st, newExtraneousOptionArgumentParseError(
                           OptionTypeShort, <<optionName>>, optionArgument))
    ELSE IF optionDescriptor.ArgumentType = OptionArgumentTypeRequired
            /\ optionArgument = <<>>
    THEN AdoptNextArgument(st, OptionTypeShort, <<optionName>>, optionDescriptor)
    ELSE Emit(st, ParsedOption(FALSE,
                  ParsedOptionValue(optionArgument, optionDescriptor, <<optionName>>)))

\* A cluster walk that drops the colon whatever the prefix was.
DropsColonAlways(dosPrefix, rest) == IndexRune(rest, ":") = 0

\* dosPrefix && strings.IndexRune(string(optionArgument), ':') == 0
DropsColon(dosPrefix, rest) == dosPrefix /\ IndexRune(rest, ":") = 0

RECURSIVE shortLoop(_, _, _, _, _)
shortLoop(optionNameRunes, dosPrefix, i, skipLocal, st) ==
    IF st.panicked \/ ~(i < Len(optionNameRunes))
    THEN st
    ELSE
    LET optionNameString == From(optionNameRunes, i)
        rest == Tail(optionNameString)
        colon == DropsColon(dosPrefix, rest)
        optionArgument == IF colon THEN Tail(rest) ELSE rest
        skipNext == LocalSkipFor(optionArgument,
                                 IF colon THEN skipLocal + 1 ELSE skipLocal)
    IN
    IF skipLocal # 0
    THEN shortLoop(optionNameRunes, dosPrefix, i + 1, skipLocal - 1, st)
    ELSE shortLoop(optionNameRunes, dosPrefix, i + 1, skipNext,
                   parseShortOption(Head(optionNameString), optionArgument, st))

parseShortOptions(optionNameRunes, dosPrefix, st) ==
    shortLoop(optionNameRunes, dosPrefix, 0, 0, st)

(***************************************************************************)
(* One iteration of the range loop of Parse, on the raw token: the scanner *)
(* state it leaves, and whether it breaks out of the loop.                 *)
(***************************************************************************)
Continue(st) == [st |-> st, break |-> FALSE, how |-> "dispatch"]

\* A terminator that is consumed on the way out.
StopConsuming(st) ==
    [st |-> incrementNextArgumentValueIndex(st), break |-> TRUE, how |-> "stop"]

\* break on "-" and on "/": the cursor stays where it is.
Stop(st) == [st |-> st, break |-> TRUE, how |-> "stop"]

\* A slash prefix recognised on every platform.
HasSlashPrefix(argumentValue) == argumentValue[1] = "/"

\* runtime.GOOS == "windows" && argumentValue[0] == '/'
HasDosPrefix(argumentValue) == dosMode /\ argumentValue[1] = "/"
\* A classification that sends colon-free names of several characters to the
\* long resolver.
DosShortFormByColonOnly(optionName) ==
    \/ Len(optionName) = 1
    \/ (Len(optionName) >= 2 /\ optionName[2] = ":")

DosShortForm(optionName) ==
    \/ Len(optionName) = 1
    \/ (Len(optionName) >= 2 /\ optionName[2] = ":")
    \/ ~ContainsRune(optionName, ":")

ParseToken(rawValue, st) ==
    LET argumentValue == TrimSpace(rawValue) IN
    IF argumentValue = <<>>
    THEN [st |-> incrementNextArgumentValueIndex(st), break |-> FALSE, how |-> "blank"]
    ELSE IF st.skip # 0
    THEN [st |-> [incrementNextArgumentValueIndex(st) EXCEPT !.skip = st.skip - 1],
          break |-> FALSE, how |-> "skip"]
    ELSE IF HasDosPrefix(argumentValue)
    THEN IF argumentValue = <<"/">>
         THEN Stop(st)
         ELSE IF DosShortForm(From(argumentValue, 1))
         THEN Continue(parseShortOptions(From(argumentValue, 1), TRUE, st))
         ELSE Continue(parseLongOption(From(argumentValue, 1), TRUE, st))
    ELSE IF argumentValue[1] = "-"
    THEN IF argumentValue = <<"-">>
         THEN Stop(st)
         ELSE IF Len(argumentValue) >= 2 /\ argumentValue[2] = "-"
         THEN IF argumentValue = <<"-", "-">>
              THEN [st |-> incrementNextArgumentValueIndex(st), break |-> TRUE,
                    how |-> "stop"]
              ELSE Continue(parseLongOption(From(argumentValue, 2), FALSE, st))
         ELSE Continue(parseShortOptions(From(argumentValue, 1), FALSE, st))
    ELSE [st |-> st, break |-> FALSE, how |-> "plain"]

(***************************************************************************)
(* The inputs: descriptors passed to AddOption/AddOptions, and the tokens  *)
(* passed to NewOptions.                                                   *)
(***************************************************************************)
Option(argumentType, name, type) ==
    [ArgumentType |-> argumentType, Name |-> name, Type |-> type]

Descriptors ==
    {Option(a, <<"x">>, OptionTypeShort) :
        a \in {OptionArgumentTypeNone, OptionArgumentTypeRequired}}
    \cup {Option(a, <<"o", "u", "t">>, OptionTypeLong) :
        a \in {OptionArgumentTypeNone, OptionArgumentTypeRequired}}

\* Lists whose entries conflict: both register the same (kind, name).
DescriptorLists ==
    {l \in Descriptors \X Descriptors :
        l[1].Type = l[2].Type /\ l[1].Name = l[2].Name /\ l[1] # l[2]}

GnuTokens ==
    { <<" ">>, <<"/", "x">>, <<"-">>, <<"-", "-">>,
      <<"-", "x">>, <<"-", "x", "z">>,
      <<"-", "-", "o", "u", "t">>,
      <<"-", "-", "o", "u", "t", "=", "v">>,
      <<"-", "-", "o", "u", "t", "=">> }

DosTokens ==
    { <<"f">>, <<"/">>,
      <<"/", "x">>, <<"/", "x", ":", "v">>,
      <<"/", "o", "u", "t">>,
      <<"/", "o", "u", "t", ":", "v">>,
      <<"/", "o", "u", "t", ":">> }

Tokens(dos) == IF dos THEN DosTokens ELSE GnuTokens

\* Token pools centred on short clusters.
ClusterGnuTokens ==
    { <<"f">>, <<"-", "x">>, <<"-", "z">>,
      <<"-", "x", "z", "z">>, <<"-", "x", ":", "v">> }

ClusterDosTokens ==
    { <<"/", "x">>, <<"/", "z">>, <<"/", "x", "z", "z">>,
      <<"/", "x", ":", "v">>, <<"/", "x", ":">>, <<"-", "x", ":", "v">> }

ClusterTokens(dos) == IF dos THEN ClusterDosTokens ELSE ClusterGnuTokens

SeqsUpTo(S, n) == UNION {[1..k -> S] : k \in 0..n}

(***************************************************************************)
(* NewOptions                                                              *)
(***************************************************************************)
NewOptions(dos, values) ==
    /\ dosMode = dos
    /\ argumentValues = values
    /\ longOptionDescriptors = <<>>
    /\ shortOptionDescriptors = <<>>
    /\ nextArgumentValueIndex = 0
    /\ skipArgumentsOnNextParseIteration = 0
    /\ Parsed = NilResult
    /\ pc = "idle"
    /\ loopIndex = 0
    /\ results = <<>>
    /\ returned = NilResult
    /\ allocated = 0
    /\ cachedCalls = FALSE
    /\ lateAdds = FALSE
    /\ origins = <<>>
    /\ swallowed = {}
    /\ blanks = {}
    /\ stopAt = 0
    /\ cursorTrace = <<>>

Init ==
    \E dos \in BOOLEAN :
        \E values \in SeqsUpTo(Tokens(dos), MaxArgs) : NewOptions(dos, values)

(***************************************************************************)
(* AddOption, AddOptions                                                   *)
(***************************************************************************)
Put(map, key, value) == [k \in DOMAIN map \cup {key} |->
                            IF k = key THEN value ELSE map[k]]

\* A registry that files a descriptor under its name in both maps.
RegisteredInBothMaps(maps, descriptor) ==
    <<Put(maps[1], descriptor.Name, descriptor),
      Put(maps[2], descriptor.Name, descriptor)>>

\* The two maps <<long, short>> after AddOption(descriptor).
Registered(maps, descriptor) ==
    IF descriptor.Type = OptionTypeLong
    THEN <<Put(maps[1], descriptor.Name, descriptor), maps[2]>>
    ELSE IF descriptor.Type = OptionTypeShort
    THEN <<maps[1], Put(maps[2], descriptor.Name, descriptor)>>
    ELSE maps

RECURSIVE RegisteredAll(_, _)
RegisteredAll(maps, descriptors) ==
    IF descriptors = <<>> THEN maps
    ELSE RegisteredAll(Registered(maps, Head(descriptors)), Tail(descriptors))

\* The caller is not inside Parse.
CallerFree ==
    /\ pc \in {"idle", "done"}
    /\ lateAdds' = (lateAdds \/ pc = "done")

AddOption(descriptor) ==
    /\ CallerFree
    /\ LET maps == Registered(<<longOptionDescriptors, shortOptionDescriptors>>,
                              descriptor)
       IN /\ longOptionDescriptors' = maps[1]
          /\ shortOptionDescriptors' = maps[2]
    /\ UNCHANGED <<dosMode, argumentValues, nextArgumentValueIndex,
                   skipArgumentsOnNextParseIteration, Parsed, pc, loopIndex,
                   results, returned, allocated, cachedCalls, origins, swallowed,
                   blanks, stopAt, cursorTrace>>

AddOptions(descriptors) ==
    /\ CallerFree
    /\ LET maps == RegisteredAll(<<longOptionDescriptors, shortOptionDescriptors>>,
                                 descriptors)
       IN /\ longOptionDescriptors' = maps[1]
          /\ shortOptionDescriptors' = maps[2]
    /\ UNCHANGED <<dosMode, argumentValues, nextArgumentValueIndex,
                   skipArgumentsOnNextParseIteration, Parsed, pc, loopIndex,
                   results, returned, allocated, cachedCalls, origins, swallowed,
                   blanks, stopAt, cursorTrace>>

(***************************************************************************)
(* Parse                                                                   *)
(***************************************************************************)
\* A Parse that never finds its memoized result.
HasParsedNever == FALSE

\* options.Parsed != nil
HasParsed == Parsed # NilResult

\* A call that finds the memoized result returns it.
ParseCached ==
    /\ pc \in {"idle", "done"}
    /\ HasParsed
    /\ returned' = Parsed
    /\ cachedCalls' = TRUE
    /\ UNCHANGED <<dosMode, argumentValues, longOptionDescriptors,
                   shortOptionDescriptors, nextArgumentValueIndex,
                   skipArgumentsOnNextParseIteration, Parsed, pc, loopIndex,
                   results, allocated, lateAdds, origins, swallowed, blanks,
                   stopAt, cursorTrace>>

\* A call that finds none enters the loop with an empty `results`.
ParseBegin ==
    /\ pc \in {"idle", "done"}
    /\ ~HasParsed
    /\ pc' = "loop"
    /\ results' = <<>>
    /\ loopIndex' = 0
    /\ origins' = <<>>
    /\ swallowed' = {}
    /\ blanks' = {}
    /\ stopAt' = 0
    /\ cursorTrace' = <<nextArgumentValueIndex>>
    /\ UNCHANGED <<dosMode, argumentValues, longOptionDescriptors,
                   shortOptionDescriptors, nextArgumentValueIndex,
                   skipArgumentsOnNextParseIteration, Parsed, returned,
                   allocated, cachedCalls, lateAdds>>

\* One iteration of the loop, on token loopIndex + 1.
ParseIteration ==
    /\ pc = "loop"
    /\ loopIndex < Len(argumentValues)
    /\ LET at == loopIndex + 1
           before == [results |-> <<>>, next |-> nextArgumentValueIndex,
                      skip |-> skipArgumentsOnNextParseIteration,
                      panicked |-> FALSE]
           step == ParseToken(argumentValues[at], before)
           after == step.st
       IN /\ results' = results \o after.results
          /\ nextArgumentValueIndex' = after.next
          /\ skipArgumentsOnNextParseIteration' = after.skip
          /\ pc' = IF after.panicked THEN "panic"
                   ELSE IF step.break THEN "exit" ELSE "loop"
          /\ loopIndex' = at
          /\ origins' = origins \o
                [k \in 1..Len(after.results) |->
                    [token |-> at, next |-> before.next, skip |-> before.skip,
                     adopted |-> IF after.skip > before.skip
                                 THEN before.next + 2 ELSE 0]]
          /\ swallowed' = IF step.how = "skip" THEN swallowed \cup {at} ELSE swallowed
          /\ blanks' = IF step.how = "blank" THEN blanks \cup {at} ELSE blanks
          /\ stopAt' = IF step.break THEN at ELSE stopAt
          /\ cursorTrace' = Append(cursorTrace, after.next)
    /\ UNCHANGED <<dosMode, argumentValues, longOptionDescriptors,
                   shortOptionDescriptors, Parsed, returned, allocated, cachedCalls,
                   lateAdds>>

\* A remainder made with one element instead of none.
MakeRemainingOfOne == <<<<>>>>

\* make([]string, 0)
MakeRemaining == <<>>

\* After the loop: build the result, memoize it and return it.
ParseFinish ==
    /\ \/ pc = "exit"
       \/ pc = "loop" /\ loopIndex = Len(argumentValues)
    /\ IF nextArgumentValueIndex > Len(argumentValues)
       THEN /\ pc' = "panic"
            /\ UNCHANGED <<Parsed, returned, allocated, results>>
       ELSE /\ pc' = "done"
            /\ allocated' = allocated + 1
            /\ Parsed' = [ref |-> allocated + 1,
                          Options |-> results,
                          RemainingArgumentValues |->
                              MakeRemaining
                                  \o From(argumentValues, nextArgumentValueIndex)]
            /\ returned' = Parsed'
            /\ results' = <<>>
    /\ UNCHANGED <<dosMode, argumentValues, longOptionDescriptors,
                   shortOptionDescriptors, nextArgumentValueIndex,
                   skipArgumentsOnNextParseIteration, loopIndex, cachedCalls,
                   lateAdds, origins, swallowed, blanks, stopAt, cursorTrace>>

Next ==
    \/ \E descriptor \in Descriptors : AddOption(descriptor)
    \/ \E descriptors \in DescriptorLists : AddOptions(descriptors)
    \/ ParseCached
    \/ ParseBegin
    \/ ParseIteration
    \/ ParseFinish

Spec == Init /\ [][Next]_vars

\* The same program started on sequences of short clusters.
ClusterInit ==
    \E dos \in BOOLEAN :
        \E values \in SeqsUpTo(ClusterTokens(dos), MaxArgs) : NewOptions(dos, values)

ClusterSpec == ClusterInit /\ [][Next]_vars

\* The same program with descriptors that share the name x between the two
\* kinds, started on few tokens.
RegistryDescriptors ==
    {Option(a, <<"x">>, t) :
        a \in {OptionArgumentTypeNone, OptionArgumentTypeRequired},
        t \in {OptionTypeLong, OptionTypeShort}}
    \cup {Option(OptionArgumentTypeNone, <<"y">>, OptionTypeShort)}

RegistryLists == RegistryDescriptors \X RegistryDescriptors

RegistryTokens == { <<"-", "x">>, <<"-", "-", "x">> }

RegistryInit ==
    \E dos \in BOOLEAN :
        \E values \in SeqsUpTo(RegistryTokens, MaxArgs) : NewOptions(dos, values)

RegistryNext ==
    \/ \E descriptor \in RegistryDescriptors : AddOption(descriptor)
    \/ \E descriptors \in RegistryLists : AddOptions(descriptors)
    \/ ParseCached
    \/ ParseBegin
    \/ ParseIteration
    \/ ParseFinish

RegistrySpec == RegistryInit /\ [][RegistryNext]_vars

(***************************************************************************)
(* Vocabulary of the properties.                                           *)
(***************************************************************************)
Positions == 1..Len(argumentValues)

Token(k) == TrimSpace(argumentValues[k])

\* The loop of the first Parse is running or has just been left.
InParse == pc \in {"loop", "exit"}

\* Parse has returned and the registry is still the one it used.
Completed == pc = "done" /\ ~lateAdds

\* The outcomes produced so far, and finally the ones of the result.
Outcomes == IF pc = "done" THEN Parsed.Options ELSE results

Produced(k) == \E j \in 1..Len(origins) : origins[j].token = k

Adopted(k) == \E j \in 1..Len(origins) : origins[j].adopted = k

\* Number of leading tokens that are not part of RemainingArgumentValues.
Dropped == Len(argumentValues) - Len(Parsed.RemainingArgumentValues)

IsTerminator(t) == t \in {<<"-">>, <<"-", "-">>} \/ (dosMode /\ t = <<"/">>)

HasOptionPrefix(t) == t # <<>> /\ (t[1] = "-" \/ (dosMode /\ t[1] = "/"))

IsPlain(t) == t # <<>> /\ ~HasOptionPrefix(t)

IsOptionToken(t) == HasOptionPrefix(t) /\ ~IsTerminator(t)

Max(S) == CHOOSE m \in S : \A n \in S : n <= m

\* The text of s before its first c (all of s without one), and the text after it.
RECURSIVE Before(_, _)
Before(s, c) ==
    IF s = <<>> \/ Head(s) = c THEN <<>> ELSE <<Head(s)>> \o Before(Tail(s), c)

RECURSIVE After(_, _)
After(s, c) ==
    IF s = <<>> THEN <<>> ELSE IF Head(s) = c THEN Tail(s) ELSE After(Tail(s), c)

\* --name without inline value, of a registered long option requiring an argument.
IsBareRequiredLong(t) ==
    /\ Len(t) > 2 /\ UpTo(t, 2) = <<"-", "-">>
    /\ ~ContainsRune(t, "=")
    /\ From(t, 2) \in DOMAIN longOptionDescriptors
    /\ longOptionDescriptors[From(t, 2)].ArgumentType = OptionArgumentTypeRequired

\* -c (/c in DOS mode) alone, of a registered short option requiring an argument.
IsBareRequiredShort(t) ==
    /\ Len(t) = 2 /\ HasOptionPrefix(t) /\ ~IsTerminator(t)
    /\ <<t[2]>> \in DOMAIN shortOptionDescriptors
    /\ shortOptionDescriptors[<<t[2]>>].ArgumentType = OptionArgumentTypeRequired

(***************************************************************************)
(* C1: after Parse, RemainingArgumentValues is the suffix of the tokens    *)
(* that starts past the last consumed token (one that produced an outcome, *)
(* was swallowed as an argument, was skipped as empty, or was the "--"     *)
(* terminator), and no token that produced an outcome is part of it.       *)
(***************************************************************************)
Consumed ==
    {origins[j].token : j \in 1..Len(origins)} \cup swallowed \cup blanks
    \cup (IF stopAt # 0 /\ Token(stopAt) = <<"-", "-">> THEN {stopAt} ELSE {})

C1_RemainingIsSuffixPastConsumed ==
    pc = "done" =>
        /\ Parsed.RemainingArgumentValues
               = From(argumentValues, Max(Consumed \cup {0}))
        /\ \A k \in Positions : Produced(k) => k <= Dropped

(***************************************************************************)
(* C2: a non-empty token without option prefix that no option adopted as   *)
(* its argument produces no outcome and is part of                         *)
(* RemainingArgumentValues, wherever it stands.                            *)
(***************************************************************************)
C2_PlainTokensRemain ==
    pc = "done" =>
        \A k \in Positions :
            (IsPlain(Token(k)) /\ k \notin swallowed /\ ~Adopted(k))
                => (~Produced(k) /\ k > Dropped)

(***************************************************************************)
(* C3: a registered long option requiring an argument, given as --name     *)
(* with a token after it, succeeds with that next token, verbatim, as its  *)
(* argument; the next token produces no outcome, and once it has been      *)
(* passed the cursor has advanced by two and the skip counter is 0 again.  *)
(***************************************************************************)
C3_LongOptionAdoptsNextToken ==
    InParse =>
        \A j \in 1..Len(origins) :
            LET k == origins[j].token IN
            (IsBareRequiredLong(Token(k)) /\ k < Len(argumentValues)) =>
                /\ ~results[j].Error
                /\ results[j].Value.Argument = argumentValues[k + 1]
                /\ ~Produced(k + 1)
                /\ loopIndex = k + 1 =>
                       /\ nextArgumentValueIndex = origins[j].next + 2
                       /\ skipArgumentsOnNextParseIteration = 0

(***************************************************************************)
(* C4 (as stated): with short x registered without argument and z          *)
(* unregistered, the cluster -xz yields a success for x, then an           *)
(* UnknownOption (Short) for z.                                            *)
(***************************************************************************)
ShortXTakesNoArgument ==
    /\ <<"x">> \in DOMAIN shortOptionDescriptors
    /\ shortOptionDescriptors[<<"x">>].ArgumentType = OptionArgumentTypeNone
    /\ <<"z">> \notin DOMAIN shortOptionDescriptors

\* The cluster has been resolved: the loop has passed it, or Parse has returned.
C4_ClusterCase ==
    /\ argumentValues = <<<<"-", "x", "z">>>>
    /\ ShortXTakesNoArgument
    /\ (InParse /\ loopIndex = 1) \/ Completed

C4_ClusterYieldsSuccessThenUnknown ==
    C4_ClusterCase =>
        Outcomes =
            <<ParsedOption(FALSE,
                  ParsedOptionValue(<<>>, shortOptionDescriptors[<<"x">>], <<"x">>)),
              ParsedOption(TRUE,
                  newUnknownOptionParseError(OptionTypeShort, <<"z">>))>>

(***************************************************************************)
(* C4 (amended): in that case the cluster -xz yields exactly one outcome,  *)
(* an ExtraneousArgument error (Short) for x with argument z; z is not     *)
(* looked up.                                                              *)
(***************************************************************************)
C4_ClusterYieldsExtraneous ==
    C4_ClusterCase =>
        Outcomes =
            <<ParsedOption(TRUE,
                  newExtraneousOptionArgumentParseError(
                      OptionTypeShort, <<"x">>, <<"z">>))>>

C4_Witness == C4_ClusterCase /\ Completed /\ Len(Parsed.Options) = 1

(***************************************************************************)
(* C5: when the scanner reaches a token that is exactly "--", no token     *)
(* after it produces an outcome and RemainingArgumentValues is exactly the *)
(* tokens after it (the "--" itself is consumed).                          *)
(***************************************************************************)
C5_DoubleDashTerminates ==
    (pc = "done" /\ stopAt # 0 /\ Token(stopAt) = <<"-", "-">>) =>
        /\ \A k \in Positions : Produced(k) => k < stopAt
        /\ Parsed.RemainingArgumentValues = From(argumentValues, stopAt)

(***************************************************************************)
(* C6: an option registered as requiring an argument that stands last,     *)
(* without inline argument, is reported as MissingArgument with its name   *)
(* and kind, whatever precedes it.                                         *)
(***************************************************************************)
C6_LastRequiredOptionIsMissing ==
    InParse =>
        \A j \in 1..Len(origins) :
            LET t == Token(origins[j].token) IN
            origins[j].token = Len(argumentValues) =>
                /\ IsBareRequiredLong(t) =>
                       results[j] = ParsedOption(TRUE,
                           newMissingOptionArgumentParseError(
                               OptionTypeLong, From(t, 2)))
                /\ IsBareRequiredShort(t) =>
                       results[j] = ParsedOption(TRUE,
                           newMissingOptionArgumentParseError(
                               OptionTypeShort, <<t[2]>>))

(***************************************************************************)
(* C7: errors never abort the pass.  Every dispatched token contributes    *)
(* exactly one outcome, outcomes are in input order, and every option      *)
(* token after an error outcome and before the point where scanning        *)
(* stopped produces its own outcome, unless it was swallowed as the        *)
(* argument of a successful option standing between the two.               *)
(***************************************************************************)
ScanEnd == IF stopAt # 0 THEN stopAt - 1 ELSE Len(argumentValues)

\* Token k was swallowed for a successful option after token e that adopted
\* an argument, with nothing but empty tokens between that option and k.
SwallowedAsArgument(k, e) ==
    /\ k \in swallowed
    /\ \E h \in 1..Len(origins) :
           /\ e < origins[h].token /\ origins[h].token < k
           /\ origins[h].adopted # 0
           /\ ~Parsed.Options[h].Error
           /\ \A m \in (origins[h].token + 1)..(k - 1) : m \in blanks

C8_ParseIsIdempotent ==
    [][pc = "done" =>
           /\ pc' = "done"
           /\ Parsed' = Parsed
           /\ returned' = Parsed
           /\ allocated' = allocated
           /\ nextArgumentValueIndex' = nextArgumentValueIndex
           /\ skipArgumentsOnNextParseIteration' = skipArgumentsOnNextParseIteration
      ]_vars

C8_Witness ==
    /\ pc = "done"
    /\ lateAdds
    /\ cachedCalls
    /\ returned = Parsed
    /\ Len(Parsed.Options) > 0
    /\ \E k \in Positions :
           /\ Produced(k)
           /\ Parsed.Options[1].Error
           /\ Token(k) = <<"-", "x">>
           /\ <<"x">> \in DOMAIN shortOptionDescriptors

(***************************************************************************)
(* C9: with an empty registry and only option tokens (-c... or             *)
(* --name[=value]), Parse yields one UnknownOption per token, in order:    *)
(* Short with the first cluster character for - tokens, Long with the text *)
(* before any = for -- tokens; RemainingArgumentValues is empty.           *)
(***************************************************************************)
IsDashOption(t) == t # <<>> /\ t[1] = "-" /\ t \notin {<<"-">>, <<"-", "-">>}

ExpectedUnknown(t) ==
    IF t[2] = "-"
    THEN ParsedOption(TRUE,
             newUnknownOptionParseError(OptionTypeLong, Before(From(t, 2), "=")))
    ELSE ParsedOption(TRUE, newUnknownOptionParseError(OptionTypeShort, <<t[2]>>))

C9_Case ==
    /\ Completed
    /\ longOptionDescriptors = <<>>
    /\ shortOptionDescriptors = <<>>
    /\ \A k \in Positions : IsDashOption(Token(k))

C9_EmptyRegistryAllUnknown ==
    C9_Case =>
        /\ Parsed.Options = [k \in Positions |-> ExpectedUnknown(Token(k))]
        /\ Parsed.RemainingArgumentValues = <<>>

C9_Witness ==
    /\ C9_Case
    /\ argumentValues = << <<"-", "-", "o", "u", "t", "=", "v">>,
                           <<"-", "x", "z">>,
                           <<"-", "-", "o", "u", "t">> >>
    /\ Len(Parsed.Options) = 3

(***************************************************************************)
(* C10: a registered long option requiring an argument, given as           *)
(* --name=value with non-empty value, succeeds with argument value without *)
(* lookahead: it adopts no token, leaves the skip counter unchanged,       *)
(* advances the cursor by one, and the next token is classified normally.  *)
(***************************************************************************)
IsInlineRequiredLong(t) ==
    /\ Len(t) > 2 /\ UpTo(t, 2) = <<"-", "-">>
    /\ ContainsRune(t, "=")
    /\ After(t, "=") # <<>>
    /\ Before(From(t, 2), "=") \in DOMAIN longOptionDescriptors
    /\ longOptionDescriptors[Before(From(t, 2), "=")].ArgumentType
           = OptionArgumentTypeRequired

C10_InlineArgumentNoLookahead ==
    InParse =>
        \A j \in 1..Len(origins) :
            LET k == origins[j].token
                t == Token(k)
            IN
            IsInlineRequiredLong(t) =>
                /\ results[j] = ParsedOption(FALSE,
                       ParsedOptionValue(After(t, "="),
                           longOptionDescriptors[Before(From(t, 2), "=")],
                           Before(From(t, 2), "=")))
                /\ origins[j].adopted = 0
                /\ loopIndex = k =>
                       /\ nextArgumentValueIndex = origins[j].next + 1
                       /\ skipArgumentsOnNextParseIteration = origins[j].skip
                /\ k + 1 \notin swallowed
                /\ (loopIndex > k /\ IsOptionToken(Token(k + 1))) => Produced(k + 1)

C10_Witness ==
    /\ InParse
    /\ loopIndex = 2
    /\ Len(origins) = 2
    /\ origins[1].token = 1
    /\ IsInlineRequiredLong(Token(1))
    /\ origins[2].token = 2

\* ---------------------------------------------------------------------------
\* The cursor around the visit of one token.

\* Token k has been visited by the loop.
Visited(k) == k \in Positions /\ Len(cursorTrace) > k

\* Token k has been visited and was not swallowed as an option's argument.
Reached(k) == Visited(k) /\ k \notin swallowed

CursorBefore(k) == cursorTrace[k]

CursorAfter(k) == cursorTrace[k + 1]

\* The indexes of the outcomes that token k produced.
OutcomesOf(k) == {j \in 1..Len(origins) : origins[j].token = k}

\* "-", or "/" in DOS mode.
IsBareTerminator(t) == t = <<"-">> \/ (dosMode /\ t = <<"/">>)

\* C11: when the scanner reaches a token that is exactly "-" (or exactly "/" in
\* DOS mode) the loop is left there and the cursor is not advanced: no token
\* from the terminator on produces an outcome, and RemainingArgumentValues is a
\* suffix of the input that starts at or before the terminator, so it contains
\* the terminator and every token after it.
C11_BareTerminatorStopsScan ==
    \A k \in Positions :
        (Reached(k) /\ IsBareTerminator(Token(k))) =>
            /\ stopAt = k
            /\ loopIndex = k
            /\ CursorAfter(k) = CursorBefore(k)
            /\ \A m \in Positions : Produced(m) => m < k
            /\ pc = "done" =>
                   /\ Dropped < k
                   /\ Parsed.RemainingArgumentValues = From(argumentValues, Dropped)
                   /\ From(Parsed.RemainingArgumentValues, k - 1 - Dropped)
                          = From(argumentValues, k - 1)

C11_Witness ==
    /\ pc = "done"
    /\ Len(argumentValues) = 3
    /\ Produced(1)
    /\ Reached(2)
    /\ IsBareTerminator(Token(2))
    /\ IsOptionToken(Token(3))
    /\ Dropped = 1

StartsWithSlash(t) == t # <<>> /\ t[1] = "/"

EmptyRegistry == longOptionDescriptors = <<>> /\ shortOptionDescriptors = <<>>

\* C12: the "/" prefix is recognised only in DOS mode. With DOS mode on and an
\* empty registry, the token "/x" yields exactly one outcome, the UnknownOption
\* error of kind Short for "x", and advances the cursor by one. With DOS mode
\* off, every token starting with "/" that the scanner reaches produces no
\* outcome and leaves the cursor where it was.
C12_SlashPrefixOnlyInDosMode ==
    \A k \in Positions :
        /\ (dosMode /\ EmptyRegistry /\ Visited(k) /\ Token(k) = <<"/", "x">>) =>
               /\ k \notin swallowed
               /\ Cardinality(OutcomesOf(k)) = 1
               /\ \A j \in OutcomesOf(k) :
                      Outcomes[j] = ParsedOption(TRUE,
                          newUnknownOptionParseError(OptionTypeShort, <<"x">>))
               /\ CursorAfter(k) = CursorBefore(k) + 1
        /\ (~dosMode /\ Reached(k) /\ StartsWithSlash(Token(k))) =>
               /\ OutcomesOf(k) = {}
               /\ CursorAfter(k) = CursorBefore(k)
               /\ stopAt # k
               /\ EmptyRegistry => swallowed = {}

C12_Witness ==
    /\ dosMode
    /\ Completed
    /\ EmptyRegistry
    /\ Len(argumentValues) = 2
    /\ Token(1) = <<"/", "x">>
    /\ Token(2) = <<"/", "x">>
    /\ Len(Parsed.Options) = 2
    /\ Parsed.RemainingArgumentValues = <<>>

\* C13: for the empty token sequence, whatever the registry holds, Parse
\* returns zero outcomes and an empty RemainingArgumentValues, which is the
\* input itself.
C13_EmptyInputEmptyResult ==
    (pc = "done" /\ argumentValues = <<>>) =>
        /\ Parsed.Options = <<>>
        /\ Parsed.RemainingArgumentValues = <<>>
        /\ Parsed.RemainingArgumentValues = argumentValues
        /\ returned = Parsed
        /\ nextArgumentValueIndex = 0

C13_Witness ==
    /\ Completed
    /\ argumentValues = <<>>
    /\ longOptionDescriptors # <<>>
    /\ shortOptionDescriptors # <<>>
    /\ Parsed.Options = <<>>

\* The text that a long-option token hands to the long resolver, and the
\* separator the resolver splits it at.
LongIsDos(t) == dosMode /\ t[1] = "/"

LongSeparator(t) == IF LongIsDos(t) THEN ":" ELSE "="

LongBody(t) == IF LongIsDos(t) THEN From(t, 1) ELSE From(t, 2)

\* --name= (/name: in DOS mode): a long-option token whose separator is its
\* last character.
HasBareTrailingSeparator(t) ==
    /\ Len(t) > 2
    /\ \/ UpTo(t, 2) = <<"-", "-">>
       \/ dosMode /\ t[1] = "/" /\ Len(Before(From(t, 1), ":")) >= 2
    /\ ContainsRune(LongBody(t), LongSeparator(t))
    /\ Before(LongBody(t), LongSeparator(t)) # <<>>
    /\ After(LongBody(t), LongSeparator(t)) = <<>>

\* C14: in the long-option resolver a bare trailing separator yields no inline
\* argument: --name= (and /name: in DOS mode) of a registered option gives the
\* outcome that --name without a separator gives from the same scanner state;
\* a no-argument option succeeds, and a required-argument option adopts the
\* next token or reports MissingArgument.
C14_BareSeparatorIsNoArgument ==
    (InParse \/ Completed) =>
        \A j \in 1..Len(origins) :
            LET t == Token(origins[j].token)
                optionName == Before(LongBody(t), LongSeparator(t))
                bare == parseLongOption(optionName, LongIsDos(t),
                            [results |-> <<>>, next |-> origins[j].next,
                             skip |-> origins[j].skip, panicked |-> FALSE])
            IN
            (HasBareTrailingSeparator(t)
             /\ optionName \in DOMAIN longOptionDescriptors) =>
                /\ bare.results = <<Outcomes[j]>>
                /\ longOptionDescriptors[optionName].ArgumentType
                       = OptionArgumentTypeNone =>
                       /\ ~Outcomes[j].Error
                       /\ origins[j].adopted = 0
                /\ longOptionDescriptors[optionName].ArgumentType
                       = OptionArgumentTypeRequired =>
                       \/ /\ ~Outcomes[j].Error
                          /\ origins[j].adopted # 0
                       \/ Outcomes[j] = ParsedOption(TRUE,
                              newMissingOptionArgumentParseError(
                                  OptionTypeLong, optionName))

\* C15: the tokens swallowed on a non-zero pending-skip counter are exactly the
\* adopted ones: each swallowed token is the one that the option before it
\* adopted as its argument, each adopted token is swallowed once the loop has
\* passed it, and the counter is 0 when the scan is over.
C15_SwallowedIsAdopted ==
    /\ \A k \in swallowed :
           \E j \in 1..Len(origins) :
               /\ origins[j].adopted = k
               /\ origins[j].token < k
               /\ \A m \in Positions : (origins[j].token < m /\ m < k) => ~Produced(m)
    /\ \A j \in 1..Len(origins) :
           (origins[j].adopted # 0
            /\ (Visited(origins[j].adopted) \/ pc \in {"exit", "done"})) =>
               origins[j].adopted \in swallowed
    /\ pc \in {"exit", "done"} => skipArgumentsOnNextParseIteration = 0

\* ---------------------------------------------------------------------------
\* Short clusters.

\* The token is handed to the short-cluster resolver with the DOS flag set.
IsDosCluster(t) ==
    /\ dosMode /\ Len(t) >= 2 /\ t[1] = "/"
    /\ \/ Len(t) = 2
       \/ t[3] = ":"
       \/ ~ContainsRune(From(t, 1), ":")

\* The token is handed to the short-cluster resolver with the DOS flag unset.
IsDashCluster(t) ==
    /\ Len(t) >= 2 /\ t[1] = "-" /\ t[2] # "-"
    /\ ~(dosMode /\ t[1] = "/")

IsCluster(t) == IsDosCluster(t) \/ IsDashCluster(t)

\* The first character of the cluster, as an option name.
ClusterFlag(t) == <<t[2]>>

\* The text of the cluster after its first character.
ClusterRest(t) == From(t, 2)

\* The trailing text of the first flag: the text after it, without its leading
\* colon when the DOS flag is set.
TrailingText(t) ==
    IF IsDosCluster(t) /\ ClusterRest(t) # <<>> /\ ClusterRest(t)[1] = ":"
    THEN Tail(ClusterRest(t))
    ELSE ClusterRest(t)

FlagTakesNoArgument(t) ==
    /\ ClusterFlag(t) \in DOMAIN shortOptionDescriptors
    /\ shortOptionDescriptors[ClusterFlag(t)].ArgumentType = OptionArgumentTypeNone

FlagRequiresArgument(t) ==
    /\ ClusterFlag(t) \in DOMAIN shortOptionDescriptors
    /\ shortOptionDescriptors[ClusterFlag(t)].ArgumentType
           = OptionArgumentTypeRequired

\* C16: a short cluster whose first character is registered as taking no
\* argument and that has non-empty trailing text yields exactly one outcome,
\* the ExtraneousArgument error of kind Short for that option with the whole
\* trailing text as argument; no trailing character yields an outcome of its own.
C16_TrailingTextIsExtraneous ==
    (InParse \/ Completed) =>
        \A k \in Positions :
            (Reached(k) /\ IsCluster(Token(k)) /\ FlagTakesNoArgument(Token(k))
             /\ TrailingText(Token(k)) # <<>>) =>
                /\ Cardinality(OutcomesOf(k)) = 1
                /\ \A j \in OutcomesOf(k) :
                       Outcomes[j] = ParsedOption(TRUE,
                           newExtraneousOptionArgumentParseError(OptionTypeShort,
                               ClusterFlag(Token(k)), TrailingText(Token(k))))

C16_Witness ==
    /\ InParse
    /\ loopIndex = 2
    /\ Reached(2)
    /\ Token(2) = <<"-", "x", "z", "z">>
    /\ FlagTakesNoArgument(Token(2))
    /\ Produced(1)
    /\ Cardinality(OutcomesOf(2)) = 1

\* C17: dispatching one short-cluster token advances the cursor by exactly one,
\* whatever the length of the cluster and whichever branch (unknown,
\* extraneous, missing, success) its characters take.
C17_ClusterAdvancesCursorByOne ==
    \A k \in Positions :
        (Reached(k) /\ IsCluster(Token(k))) =>
            /\ CursorAfter(k) = CursorBefore(k) + 1
            /\ OutcomesOf(k) # {}

C17_Witness ==
    /\ InParse
    /\ loopIndex = 3
    /\ \A k \in Positions : Reached(k) /\ IsCluster(Token(k))
    /\ Token(1) = <<"-", "x", "z", "z">>
    /\ Len(Token(3)) = 2
    /\ Len(results) = 3
    /\ ~results[1].Error
    /\ results[2].Value.name = "UnknownOptionParseError"
    /\ results[3].Value.name = "MissingOptionArgumentParseError"
    /\ nextArgumentValueIndex = 3

\* The kind and the name that an outcome reports.
OutcomeKind(o) == IF o.Error THEN o.Value.OptionType ELSE o.Value.Type

OutcomeName(o) == IF o.Error THEN o.Value.OptionName ELSE o.Value.Name

\* C18: in DOS mode a "/"-prefixed token other than "/" goes to the short
\* resolver (its outcome is of kind Short, for its first character) exactly
\* when the text after the slash is a single character, or has ":" as second
\* character, or contains no ":"; otherwise it goes to the long resolver with
\* ":" as separator (its one outcome is of kind Long, for the name before the
\* colon, and a success carries the text after the colon as argument).
C18_DosDispatch ==
    (dosMode /\ (InParse \/ Completed)) =>
        \A k \in Positions :
            LET t == Token(k) IN
            (Reached(k) /\ StartsWithSlash(t) /\ t # <<"/">>) =>
                /\ OutcomesOf(k) # {}
                /\ IsDosCluster(t) <=>
                       \A j \in OutcomesOf(k) :
                           OutcomeKind(Outcomes[j]) = OptionTypeShort
                /\ IsDosCluster(t) =>
                       \A j \in OutcomesOf(k) : OutcomeName(Outcomes[j]) = <<t[2]>>
                /\ ~IsDosCluster(t) =>
                       /\ Cardinality(OutcomesOf(k)) = 1
                       /\ \A j \in OutcomesOf(k) :
                              /\ OutcomeKind(Outcomes[j]) = OptionTypeLong
                              /\ OutcomeName(Outcomes[j]) = Before(From(t, 1), ":")
                              /\ (~Outcomes[j].Error /\ After(t, ":") # <<>>) =>
                                     Outcomes[j].Value.Argument = After(t, ":")

C18_Witness ==
    /\ dosMode
    /\ Completed
    /\ Len(argumentValues) = 2
    /\ Token(1) = <<"/", "o", "u", "t", ":", "v">>
    /\ Token(2) = <<"/", "o", "u", "t">>
    /\ Len(Parsed.Options) = 2
    /\ ~Parsed.Options[1].Error
    /\ Parsed.Options[1].Value.Name = <<"o", "u", "t">>
    /\ Parsed.Options[1].Value.Argument = <<"v">>
    /\ Parsed.Options[2] = ParsedOption(TRUE,
           newUnknownOptionParseError(OptionTypeShort, <<"o">>))

\* A cluster of the form c:rest.
HasColonAfterFlag(t) == Len(t) >= 3 /\ t[3] = ":"

\* The outcome of a cluster whose first flag carries the trailing text given.
ExpectedInline(t, trailingText) ==
    IF ClusterFlag(t) \notin DOMAIN shortOptionDescriptors
    THEN ParsedOption(TRUE,
             newUnknownOptionParseError(OptionTypeShort, ClusterFlag(t)))
    ELSE IF FlagTakesNoArgument(t)
    THEN ParsedOption(TRUE,
             newExtraneousOptionArgumentParseError(OptionTypeShort,
                 ClusterFlag(t), trailingText))
    ELSE ParsedOption(FALSE,
             ParsedOptionValue(trailingText,
                 shortOptionDescriptors[ClusterFlag(t)], ClusterFlag(t)))

\* C19: a short cluster c:rest dispatched with the DOS flag set drops the colon
\* and takes the whole text after it as the inline argument of c; the cluster
\* yields exactly one outcome, for c, and neither the colon nor a character of
\* rest is processed as a flag. Dispatched without the DOS flag the colon stays
\* the first character of the argument.
C19_DosClusterDropsColon ==
    (InParse \/ Completed) =>
        \A k \in Positions :
            LET t == Token(k) IN
            (Reached(k) /\ IsCluster(t) /\ HasColonAfterFlag(t)) =>
                /\ Cardinality(OutcomesOf(k)) = 1
                /\ \A j \in OutcomesOf(k) :
                       /\ OutcomeName(Outcomes[j]) = ClusterFlag(t)
                       /\ (IsDosCluster(t) /\ From(t, 3) # <<>>) =>
                              Outcomes[j] = ExpectedInline(t, From(t, 3))
                       /\ (IsDosCluster(t) /\ From(t, 3) = <<>>
                           /\ FlagTakesNoArgument(t)) =>
                              Outcomes[j] = ParsedOption(FALSE,
                                  ParsedOptionValue(<<>>,
                                      shortOptionDescriptors[ClusterFlag(t)],
                                      ClusterFlag(t)))
                       /\ (IsDosCluster(t) /\ From(t, 3) = <<>>
                           /\ FlagRequiresArgument(t)) =>
                              \/ origins[j].adopted # 0
                              \/ Outcomes[j].Value.name
                                     = "MissingOptionArgumentParseError"
                       /\ IsDashCluster(t) =>
                              Outcomes[j] = ExpectedInline(t, From(t, 2))

C19_Witness ==
    /\ dosMode
    /\ InParse
    /\ loopIndex = 2
    /\ Token(1) = <<"/", "x", ":", "v">>
    /\ Token(2) = <<"-", "x", ":", "v">>
    /\ FlagRequiresArgument(Token(1))
    /\ Len(results) = 2
    /\ results[1].Value.Argument = <<"v">>
    /\ results[2].Value.Argument = <<":", "v">>

\* ---------------------------------------------------------------------------
\* The registry.

NoDescriptor == [registered |-> FALSE]

\* The descriptor that a lookup of (kind, name) finds in the two maps.
LookupIn(long, short, kind, name) ==
    LET map == IF kind = OptionTypeLong THEN long ELSE short IN
    IF name \in DOMAIN map THEN map[name] ELSE NoDescriptor

KeyOf(descriptor) == <<descriptor.Type, descriptor.Name>>

RegistryKeys == {KeyOf(descriptor) : descriptor \in RegistryDescriptors}

\* The descriptor that a lookup of key must find after the descriptors of the
\* list were registered in order: the last one of the list with that key, or
\* what the lookup found before.
RECURSIVE ExpectedLookup(_, _, _)
ExpectedLookup(found, descriptors, key) ==
    IF descriptors = <<>> THEN found
    ELSE ExpectedLookup(
             IF KeyOf(Head(descriptors)) = key THEN Head(descriptors) ELSE found,
             Tail(descriptors), key)

\* The step leaves every lookup as the registration of the list demands.
LooksUpAfter(descriptors) ==
    \A key \in RegistryKeys :
        LookupIn(longOptionDescriptors', shortOptionDescriptors', key[1], key[2])
            = ExpectedLookup(
                  LookupIn(longOptionDescriptors, shortOptionDescriptors,
                           key[1], key[2]),
                  descriptors, key)

\* Each map holds, under a name, a descriptor of that name and of the map's kind.
RegistryKeyed ==
    /\ \A n \in DOMAIN longOptionDescriptors :
           KeyOf(longOptionDescriptors[n]) = <<OptionTypeLong, n>>
    /\ \A n \in DOMAIN shortOptionDescriptors :
           KeyOf(shortOptionDescriptors[n]) = <<OptionTypeShort, n>>

\* C20: the registry holds at most one descriptor per (kind, name), filed under
\* its own kind and name, and each AddOption/AddOptions call leaves every
\* lookup at the descriptor registered last for that (kind, name): registering
\* a Long descriptor named n does not change what a Short lookup of n finds,
\* and vice versa.
C20_RegistryLastWriteWins ==
    /\ []RegistryKeyed
    /\ [][/\ \A descriptor \in RegistryDescriptors :
                 AddOption(descriptor) => LooksUpAfter(<<descriptor>>)
          /\ \A descriptors \in RegistryLists :
                 AddOptions(descriptors) => LooksUpAfter(descriptors)]_vars

C20_Witness ==
    /\ Completed
    /\ argumentValues = << <<"-", "x">>, <<"-", "-", "x">> >>
    /\ <<"y">> \in DOMAIN shortOptionDescriptors
    /\ LookupIn(longOptionDescriptors, shortOptionDescriptors,
                OptionTypeLong, <<"x">>)
           = Option(OptionArgumentTypeRequired, <<"x">>, OptionTypeLong)
    /\ LookupIn(longOptionDescriptors, shortOptionDescriptors,
                OptionTypeShort, <<"x">>)
           = Option(OptionArgumentTypeNone, <<"x">>, OptionTypeShort)
    /\ Len(Parsed.Options) = 2
    /\ ~Parsed.Options[1].Error
    /\ Parsed.Options[1].Value.Type = OptionTypeShort
    /\ Parsed.Options[2] = ParsedOption(TRUE,
           newMissingOptionArgumentParseError(OptionTypeLong, <<"x">>))

\* ---------------------------------------------------------------------------
\* The cursor and the outcomes over the whole scan.

\* C21: during Parse the cursor never decreases, grows by at most one per token
\* the loop visits, and never exceeds the number of tokens; every lookahead
\* slices the input at an index within its bounds, so does the final slice of
\* the remainder, and Parse does not panic.
C21_CursorStaysInBounds ==
    /\ pc # "panic"
    /\ nextArgumentValueIndex <= Len(argumentValues)
    /\ nextArgumentValueIndex <= loopIndex
    /\ Len(cursorTrace) <= Len(argumentValues) + 1
    /\ \A i \in 1..Len(cursorTrace) :
           /\ cursorTrace[i] <= i - 1
           /\ i > 1 => /\ cursorTrace[i - 1] <= cursorTrace[i]
                       /\ cursorTrace[i] <= cursorTrace[i - 1] + 1
    /\ cursorTrace # <<>> => nextArgumentValueIndex = cursorTrace[Len(cursorTrace)]
    /\ \A j \in 1..Len(origins) :
           /\ origins[j].next + 1 <= Len(argumentValues)
           /\ origins[j].adopted # 0 => origins[j].adopted \in Positions
    /\ pc = "done" =>
           Parsed.RemainingArgumentValues
               = From(argumentValues, nextArgumentValueIndex)

C21_Witness ==
    /\ Completed
    /\ Len(argumentValues) = 3
    /\ nextArgumentValueIndex = 3
    /\ swallowed # {}
    /\ \E j \in 1..Len(origins) : origins[j].adopted = 3
    /\ Parsed.RemainingArgumentValues = <<>>

\* The token is handed to the long or to the short resolver.
Dispatched(k) == Reached(k) /\ IsOptionToken(Token(k))

\* C22: every token dispatched to a resolver contributes exactly one outcome:
\* the outcomes are as many as the dispatched tokens, a short cluster yields
\* neither none nor more than one, and the pending-skip counter is 0 or 1.
C22_OneOutcomePerDispatchedToken ==
    /\ \A k \in Positions :
           IF Dispatched(k)
           THEN Cardinality(OutcomesOf(k)) = 1
           ELSE OutcomesOf(k) = {}
    /\ Len(Outcomes) = Cardinality({k \in Positions : Dispatched(k)})
    /\ Len(origins) = Len(Outcomes)
    /\ skipArgumentsOnNextParseIteration \in {0, 1}

C22_Witness ==
    /\ InParse
    /\ loopIndex = 2
    /\ Len(argumentValues) = 3
    /\ IsCluster(Token(1)) /\ Len(Token(1)) = 3
    /\ Dispatched(1) /\ Dispatched(2)
    /\ Len(results) = 2
    /\ skipArgumentsOnNextParseIteration = 1

====
